---- MODULE Spec2Model ----
(***************************************************************************)
(* rmexif: in-memory image scrubbing (metadata strip + face blur) and its  *)
(* two bulk orchestrators.                                                 *)
(*                                                                         *)
(*   src/rmexif/processors.py  strip_metadata, detect_faces, blur_faces    *)
(*   src/rmexif/core.py        Scrubber (__init__, _validate, process,     *)
(*                             _process_single, bulk_process)              *)
(*   src/rmexif/utils.py       _scrub_task, bulk_process                   *)
(*                                                                         *)
(* An encoded image buffer is a record of the facts about its bytes that   *)
(* decide what PIL and OpenCV do with it.  The library calls are           *)
(* deterministic functions of the bytes, so they are functions of these    *)
(* fields.                                                                 *)
(***************************************************************************)
EXTENDS Integers, Sequences, FiniteSets, TLC

(* ---------------------------------------------------------------------- *)
(* Bounds                                                                  *)
(* ---------------------------------------------------------------------- *)
MaxLen == 2          \* longest batch handed to a bulk entry point
MaxWorkers == 2      \* largest max_workers given to utils.bulk_process
CpuCount == 1        \* os.cpu_count() of the host
MaxFaces == 1        \* most face regions in one image
MaxTime == 1         \* largest measured processing_time_ms
MaxCalls == 2        \* process() calls made on one Scrubber
MaxDim == 4          \* widest margin of a face region over the smallest one

(* ---------------------------------------------------------------------- *)
(* Image buffers                                                           *)
(* ---------------------------------------------------------------------- *)
\* kind      "bytes" for a bytes object, "other" for any other object
\* verifyOk  Image.open(...).verify() accepts the buffer
\* saveOk    Image.open(...) followed by img.save(...) succeeds
\* fmt       img.format as PIL reports it ("NONE" when PIL reports None)
\* meta      the container carries ancillary metadata (EXIF, comments, ...)
\* cvOk      cv2.imdecode yields a pixel grid (not None)
\* faces     the regions <<x, y, w, h>> detectMultiScale finds in the pixels
\* encOk     cv2.imencode('.jpg', ...) of the pixel grid succeeds
\* enc       who wrote the container: "src" (the caller's encoder), "pil", "cv2"
\* blurred   the pixels inside the face regions have been blurred
NotBytes ==
  [kind |-> "other", verifyOk |-> FALSE, saveOk |-> FALSE, fmt |-> "NONE",
   meta |-> FALSE, cvOk |-> FALSE, faces |-> <<>>, encOk |-> FALSE,
   enc |-> "src", blurred |-> FALSE]

Corrupt == [NotBytes EXCEPT !.kind = "bytes"]

Truncated == [Corrupt EXCEPT !.verifyOk = TRUE, !.fmt = "JPEG", !.meta = TRUE]

Region(k) == <<10 * k, 10 * k, 41 + k - 1, 60 + k - 1>>

FaceLists == {[i \in 1..n |-> Region(i)] : n \in 0..MaxFaces}

\* Valid images: PIL verifies and re-saves them.
ValidImages ==
  { [kind |-> "bytes", verifyOk |-> TRUE, saveOk |-> TRUE, fmt |-> f,
     meta |-> m, cvOk |-> c, faces |-> fs, encOk |-> e, enc |-> w,
     blurred |-> FALSE] :
      f \in {"JPEG", "GIF"}, m \in BOOLEAN, c \in BOOLEAN, fs \in FaceLists,
      e \in BOOLEAN, w \in {"src"} }

\* The buffers a caller hands in.  Fields that cannot influence the run are
\* held at one value: an image OpenCV cannot decode has no detectable faces,
\* an image without faces is never re-encoded by OpenCV, GIF is the format
\* PIL reads and OpenCV does not, and the caller's encoder wrote metadata.
Inputs ==
  {NotBytes, Corrupt, Truncated} \cup
  { b \in ValidImages :
      /\ (b.fmt = "GIF") = (~b.cvOk)
      /\ (~b.cvOk) => (b.faces = <<>>)
      /\ (b.faces = <<>>) => b.encOk
      /\ b.meta }

NoBuf == [kind |-> "none"]

\* minSize of detectMultiScale: no reported region is narrower or lower.
MinSize == 30

\* Widths and heights of reported regions.
Dims == (MinSize..(MinSize + MaxDim)) \cup {41, 60}

\* Single images of every container format and every face region size: a
\* format OpenCV reads as well (JPEG, PNG), one only PIL reads (GIF), and a
\* container whose PIL plugin reports no format name.
\* An image OpenCV cannot decode has no detectable faces.
ImageInputs ==
  { [kind |-> "bytes", verifyOk |-> TRUE, saveOk |-> TRUE, fmt |-> f,
     meta |-> TRUE, cvOk |-> (f # "GIF"), faces |-> fs, encOk |-> TRUE,
     enc |-> "src", blurred |-> FALSE] :
      f \in {"JPEG", "PNG", "NONE"},
      fs \in {<<>>} \cup {<< <<0, 0, w, h>> >> : w \in Dims, h \in Dims} }
  \cup
  { [kind |-> "bytes", verifyOk |-> TRUE, saveOk |-> TRUE, fmt |-> "GIF",
     meta |-> TRUE, cvOk |-> FALSE, faces |-> <<>>, encOk |-> TRUE,
     enc |-> "src", blurred |-> FALSE] }

(* ---------------------------------------------------------------------- *)
(* processors.py                                                           *)
(* ---------------------------------------------------------------------- *)
\* Outcome of a call: a value (ok) or a raised exception (err), and the
\* number of log records the call emitted.
Ok(v, n) == [ok |-> TRUE, val |-> v, err |-> "none", logs |-> n]

Raise(e, n) == [ok |-> FALSE, val |-> NoBuf, err |-> e, logs |-> n]

\* Mutant of strip_metadata: the image is always saved as JPEG.
strip_metadata_jpeg(image_bytes) ==
  IF image_bytes.kind = "bytes" /\ image_bytes.saveOk
    THEN Ok([image_bytes EXCEPT !.fmt = "JPEG", !.meta = FALSE,
                                !.enc = "pil", !.verifyOk = TRUE], 0)
    ELSE Raise("ProcessingError", 1)

\* strip_metadata: re-save through PIL in the detected format (JPEG when PIL
\* reports none); the fresh container carries no metadata.  Any exception is
\* logged and re-raised as ProcessingError.
strip_metadata(image_bytes) ==
  IF image_bytes.kind = "bytes" /\ image_bytes.saveOk
    THEN Ok([image_bytes EXCEPT
               !.fmt = IF image_bytes.fmt = "NONE" THEN "JPEG" ELSE image_bytes.fmt,
               !.meta = FALSE, !.enc = "pil", !.verifyOk = TRUE], 0)
    ELSE Raise("ProcessingError", 1)

\* Mutant of detect_faces: the classifier is loaded before the buffer is
\* decoded.
detect_faces_cascade_first(image_bytes, cascadeOk) ==
  IF image_bytes.kind # "bytes" THEN Raise("ProcessingError", 1)
  ELSE IF ~cascadeOk THEN Raise("ProcessingError", 2)
  ELSE IF ~image_bytes.cvOk THEN Ok([img |-> "null", faces |-> <<>>], 1)
  ELSE Ok([img |-> "grid", faces |-> image_bytes.faces], 0)

\* detect_faces: (img, faces).  img is "null" when cv2.imdecode returns None
\* (checked before the classifier is loaded), otherwise the decoded grid.
detect_faces(image_bytes, cascadeOk) ==
  IF image_bytes.kind # "bytes" THEN Raise("ProcessingError", 1)
  ELSE IF ~image_bytes.cvOk THEN Ok([img |-> "null", faces |-> <<>>], 1)
  ELSE IF ~cascadeOk THEN Raise("ProcessingError", 2)
  ELSE Ok([img |-> "grid", faces |-> image_bytes.faces], 0)

Max(a, b) == IF a >= b THEN a ELSE b

\* Mutant of BitOr1: the next integer.
BitOr1_next(n) == n + 1

\* n | 1 on a non-negative integer: set the lowest bit.
BitOr1(n) == IF n % 2 = 0 THEN n + 1 ELSE n

\* ksize = int(max(w, h) / 2) | 1
ksize(w, h) == BitOr1(Max(w, h) \div 2)

\* cv2.GaussianBlur accepts a kernel dimension only if it is positive and odd.
GaussianBlurOk(k) == k > 0 /\ k % 2 = 1

\* Mutant of blur_faces: the grid is encoded as JPEG also when there is
\* nothing to blur.
blur_faces_reencode(image_bytes, cascadeOk) ==
  LET d == detect_faces(image_bytes, cascadeOk) IN
  IF ~d.ok THEN Raise("ProcessingError", d.logs + 1)
  ELSE IF ~image_bytes.encOk THEN Raise("ProcessingError", d.logs + 1)
  ELSE Ok([bytes |-> [image_bytes EXCEPT !.fmt = "JPEG", !.enc = "cv2",
                                         !.blurred = Len(d.val.faces) > 0,
                                         !.meta = FALSE],
           count |-> Len(d.val.faces)], d.logs)

\* Mutant of blur_faces: finding no face is reported as an error.
blur_faces_strict(image_bytes, cascadeOk) ==
  LET d == detect_faces(image_bytes, cascadeOk) IN
  IF ~d.ok THEN Raise("ProcessingError", d.logs + 1)
  ELSE IF d.val.img = "null"
    THEN Ok([bytes |-> image_bytes, count |-> 0], d.logs)
  ELSE IF Len(d.val.faces) = 0 THEN Raise("ProcessingError", d.logs + 1)
  ELSE IF ~image_bytes.encOk THEN Raise("ProcessingError", d.logs + 1)
  ELSE Ok([bytes |-> [image_bytes EXCEPT !.fmt = "JPEG", !.enc = "cv2",
                                         !.blurred = TRUE, !.meta = FALSE],
           count |-> Len(d.val.faces)], d.logs)

\* Mutant of blur_faces: a JPEG encoding that fails yields an empty buffer,
\* which is returned.
blur_faces_unchecked(image_bytes, cascadeOk) ==
  LET d == detect_faces(image_bytes, cascadeOk) IN
  IF ~d.ok THEN Raise("ProcessingError", d.logs + 1)
  ELSE IF d.val.img = "null" \/ Len(d.val.faces) = 0
    THEN Ok([bytes |-> image_bytes, count |-> 0], d.logs)
  ELSE Ok([bytes |-> [image_bytes EXCEPT !.fmt = "JPEG", !.enc = "cv2",
                                         !.blurred = TRUE, !.meta = FALSE,
                                         !.verifyOk = image_bytes.encOk],
           count |-> Len(d.val.faces)], d.logs)

\* blur_faces: (bytes, face_count).  With no grid or no region the argument
\* itself is returned; otherwise every region is blurred and the grid is
\* encoded as JPEG by OpenCV.  A ProcessingError is re-raised as it is, any
\* other exception is wrapped into one; both are logged.
blur_faces(image_bytes, cascadeOk) ==
  LET d == detect_faces(image_bytes, cascadeOk) IN
  IF ~d.ok THEN Raise("ProcessingError", d.logs + 1)
  ELSE IF d.val.img = "null" \/ Len(d.val.faces) = 0
    THEN Ok([bytes |-> image_bytes, count |-> 0], d.logs)
  ELSE IF \E i \in 1..Len(d.val.faces) :
            ~GaussianBlurOk(ksize(d.val.faces[i][3], d.val.faces[i][4]))
    THEN Raise("ProcessingError", d.logs + 1)
  ELSE IF ~image_bytes.encOk THEN Raise("ProcessingError", d.logs + 1)
  ELSE Ok([bytes |-> [image_bytes EXCEPT !.fmt = "JPEG", !.enc = "cv2",
                                         !.blurred = TRUE, !.meta = FALSE],
           count |-> Len(d.val.faces)], d.logs)

(* ---------------------------------------------------------------------- *)
(* core.py: Scrubber                                                       *)
(* ---------------------------------------------------------------------- *)
\* A Scrubber and the call running on it.
\*   image_bytes  self.image_bytes (NoBuf until __init__ stores it)
\*   validated    the buffer _validate accepted (NoBuf until then)
\*   stage        "Validating", "Constructed", "Stripping", "Blurring",
\*                "Done" or "Failed": where the object's current call stands
\*   arg          the argument the running stage was called with
\*   cleaned      cleaned_bytes of the current process() call
\*   out          what the current call returned to its caller (NoPair if
\*                nothing), err the exception it raised ("none" if none)
\*   logs         log records emitted so far
\*   trace        stages entered, in order, since the object was created
\*   calls        process() calls started
\*   prev         what the call before the current one left behind: the
\*                stored image_bytes, the pair it returned and its error
NoPair == [bytes |-> NoBuf]

NoPrev == [image_bytes |-> NoBuf, out |-> NoPair, err |-> "none"]

NoScrubber == [stage |-> "none"]

\* Scrubber.__init__ up to the call of _validate: the type check and the
\* assignment of self.image_bytes.
Scrubber_init(image_bytes) ==
  IF image_bytes.kind # "bytes"
    THEN [image_bytes |-> NoBuf, validated |-> NoBuf, stage |-> "Failed",
          arg |-> NoBuf, cleaned |-> NoBuf, out |-> NoPair,
          err |-> "TypeError", logs |-> 0, trace |-> <<>>, calls |-> 0,
          prev |-> NoPrev]
    ELSE [image_bytes |-> image_bytes, validated |-> NoBuf,
          stage |-> "Validating", arg |-> image_bytes, cleaned |-> NoBuf,
          out |-> NoPair, err |-> "none", logs |-> 0,
          trace |-> <<"Validating">>, calls |-> 0, prev |-> NoPrev]

\* Scrubber._validate: verify() through PIL; a failure is logged and raised
\* as ValueError.
Scrubber_validate(s) ==
  IF s.arg.verifyOk
    THEN [s EXCEPT !.stage = "Constructed", !.validated = s.arg,
                   !.arg = NoBuf]
    ELSE [s EXCEPT !.stage = "Failed", !.err = "ValueError",
                   !.logs = @ + 1, !.arg = NoBuf]

\* Scrubber.process, entry: the call starts with strip_metadata on
\* self.image_bytes.
process_enter(s) ==
  [s EXCEPT !.stage = "Stripping", !.arg = s.image_bytes, !.cleaned = NoBuf,
            !.out = NoPair, !.err = "none", !.calls = @ + 1,
            !.trace = Append(@, "Stripping"),
            !.prev = [image_bytes |-> s.image_bytes, out |-> s.out,
                      err |-> s.err]]

\* Mutant of process_strip: a failed strip is logged and the call goes on
\* with the bytes it has.
process_strip_unchecked(s) ==
  LET r == strip_metadata(s.arg) IN
  [s EXCEPT !.stage = "Blurring",
            !.cleaned = IF r.ok THEN r.val ELSE s.arg,
            !.arg = IF r.ok THEN r.val ELSE s.arg,
            !.logs = @ + r.logs, !.trace = Append(@, "Blurring")]

\* Mutant of process_strip: the cleaned bytes replace self.image_bytes.
process_strip_inplace(s) ==
  LET r == strip_metadata(s.arg) IN
  IF r.ok
    THEN [s EXCEPT !.stage = "Blurring", !.cleaned = r.val, !.arg = r.val,
                   !.image_bytes = r.val,
                   !.logs = @ + r.logs, !.trace = Append(@, "Blurring")]
    ELSE [s EXCEPT !.stage = "Failed", !.err = r.err, !.arg = NoBuf,
                   !.logs = @ + r.logs + 1]

\* Scrubber.process, step 1: strip_metadata; on success blur_faces is called
\* with cleaned_bytes, on failure the exception is logged and re-raised.
process_strip(s) ==
  LET r == strip_metadata(s.arg) IN
  IF r.ok
    THEN [s EXCEPT !.stage = "Blurring", !.cleaned = r.val, !.arg = r.val,
                   !.logs = @ + r.logs, !.trace = Append(@, "Blurring")]
    ELSE [s EXCEPT !.stage = "Failed", !.err = r.err, !.arg = NoBuf,
                   !.logs = @ + r.logs + 1]

\* Mutant of process_blur: a failed detect/blur stage is swallowed and the
\* stripped bytes are returned with zero faces.
process_blur_fallback(s, cascadeOk, ms) ==
  LET r == blur_faces(s.arg, cascadeOk) IN
  [s EXCEPT !.stage = "Done", !.arg = NoBuf, !.logs = @ + r.logs,
            !.trace = Append(@, "Done"),
            !.out = [bytes |-> IF r.ok THEN r.val.bytes ELSE s.arg,
                     stats |-> [faces_detected |-> IF r.ok THEN r.val.count ELSE 0,
                                metadata_removed |-> TRUE,
                                processing_time_ms |-> ms]]]

\* Mutant of process_blur: metadata_removed says whether the input carried
\* metadata.
process_blur_flag(s, cascadeOk, ms) ==
  LET r == blur_faces(s.arg, cascadeOk) IN
  IF r.ok
    THEN [s EXCEPT !.stage = "Done", !.arg = NoBuf, !.logs = @ + r.logs,
                   !.trace = Append(@, "Done"),
                   !.out = [bytes |-> r.val.bytes,
                            stats |-> [faces_detected |-> r.val.count,
                                       metadata_removed |-> ~s.image_bytes.meta,
                                       processing_time_ms |-> ms]]]
    ELSE [s EXCEPT !.stage = "Failed", !.err = r.err, !.arg = NoBuf,
                   !.logs = @ + r.logs + 1]

\* Scrubber.process, step 2: blur_faces, then the stats and the return of
\* (final_bytes, stats); on failure the exception is logged and re-raised.
process_blur(s, cascadeOk, ms) ==
  LET r == blur_faces(s.arg, cascadeOk) IN
  IF r.ok
    THEN [s EXCEPT !.stage = "Done", !.arg = NoBuf, !.logs = @ + r.logs,
                   !.trace = Append(@, "Done"),
                   !.out = [bytes |-> r.val.bytes,
                            stats |-> [faces_detected |-> r.val.count,
                                       metadata_removed |-> TRUE,
                                       processing_time_ms |-> ms]]]
    ELSE [s EXCEPT !.stage = "Failed", !.err = r.err, !.arg = NoBuf,
                   !.logs = @ + r.logs + 1]

\* Scrubber(data).process(): the constructor and one call of process(), run
\* to the end; ms is the time the call measures.  Each stage runs on the
\* state the stage before it left (s0 after the type check, s1 after the
\* validation, s2 after the strip), and a failed stage ends the run.
pipeline(data, cascadeOk, ms) ==
  CHOOSE end \in
    { IF s2.stage = "Failed" THEN s2 ELSE process_blur(s2, cascadeOk, ms) :
        s2 \in { IF s1.stage = "Failed" THEN s1
                 ELSE process_strip(process_enter(s1)) :
                   s1 \in { IF s0.stage = "Failed" THEN s0
                            ELSE Scrubber_validate(s0) :
                              s0 \in {Scrubber_init(data)} } } } : TRUE

\* Mutant of _process_single: a failed item yields no bytes.
_process_single_none(data, s) ==
  IF s.stage = "Done"
    THEN [result |-> s.out.bytes, exception |-> "none", logs |-> s.logs]
    ELSE [result |-> NoBuf, exception |-> "none", logs |-> s.logs]

\* Scrubber._process_single after Scrubber(data).process() has ended: the
\* cleaned bytes, or data itself when anything was raised.  The value is
\* what the task's future is resolved to.
_process_single(data, s) ==
  IF s.stage = "Done"
    THEN [result |-> s.out.bytes, exception |-> "none", logs |-> s.logs]
    ELSE [result |-> data, exception |-> "none", logs |-> s.logs]

(* ---------------------------------------------------------------------- *)
(* utils.py                                                                *)
(* ---------------------------------------------------------------------- *)
\* Mutant of _scrub_task: the exception of the Scrubber is not caught.
_scrub_task_uncaught(image_data, s) ==
  IF s.stage = "Done"
    THEN [result |-> s.out.bytes, exception |-> "none", logs |-> s.logs]
    ELSE [result |-> NoBuf, exception |-> s.err, logs |-> s.logs]

\* Mutant of _scrub_task: a failed item yields whatever the strip produced.
_scrub_task_partial(image_data, s) ==
  IF s.stage = "Done"
    THEN [result |-> s.out.bytes, exception |-> "none", logs |-> s.logs]
    ELSE [result |-> IF s.cleaned # NoBuf THEN s.cleaned ELSE image_data,
          exception |-> "none", logs |-> s.logs + 1]

\* _scrub_task after scrubber.process() has ended: as _process_single, and a
\* failure is logged.
_scrub_task(image_data, s) ==
  IF s.stage = "Done"
    THEN [result |-> s.out.bytes, exception |-> "none", logs |-> s.logs]
    ELSE [result |-> image_data, exception |-> "none", logs |-> s.logs + 1]

(* ---------------------------------------------------------------------- *)
(* State                                                                   *)
(* ---------------------------------------------------------------------- *)
\* The caller runs one of two programs on image_list: the two bulk entry
\* points one after the other (in either order), or one Scrubber built on an
\* element of the list with process() called on it up to MaxCalls times, or
\* one run of the command line program on a file holding an element of the
\* list.
VARIABLES
  image_list,   \* the batch the caller holds
  cascadeOk,    \* the Haar cascade file of the installation loads
  max_workers,  \* per engine: size of the pool of the running call
  fs,           \* per engine: the futures executor.map created, by index
  results,      \* per engine: the list that list(...) has built so far
  bpc,          \* per engine: "idle", "collecting", "raising", "returned"
  ret,          \* per engine: what the call gave back to the caller
  overtaken,    \* per engine: an item finished before an earlier one did
  scrubber,     \* the caller's own Scrubber (NoScrubber if none)
  cli           \* the run of the command line program (NotRun if none)

vars == <<image_list, cascadeOk, max_workers, fs, results, bpc, ret,
          overtaken, scrubber, cli>>

Engines == {"thread", "process"}

Other(e) == IF e = "thread" THEN "process" ELSE "thread"

Min(a, b) == IF a <= b THEN a ELSE b

BoundedSeq(S, n) == UNION {[1..m -> S] : m \in 0..n}

NotCalled == [status |-> "not_called", value |-> <<>>, err |-> "none"]

NotRun == [status |-> "not_run"]

\* A future as submit() creates it: st, result and exception are the
\* future's own; the rest is history: err (what the Scrubber raised inside
\* the task), logs, trace and starts (how often a worker took the item).
PendingFuture ==
  [st |-> "PENDING", result |-> NoBuf,
   exception |-> "none", err |-> "none", logs |-> 0, trace |-> <<>>,
   starts |-> 0]

Init ==
  /\ image_list \in BoundedSeq(Inputs, MaxLen)
  /\ cascadeOk \in BOOLEAN
  /\ max_workers = [e \in Engines |-> 0]
  /\ fs = [e \in Engines |-> <<>>]
  /\ results = [e \in Engines |-> <<>>]
  /\ bpc = [e \in Engines |-> "idle"]
  /\ ret = [e \in Engines |-> NotCalled]
  /\ overtaken = [e \in Engines |-> FALSE]
  /\ scrubber = NoScrubber
  /\ cli = NotRun

(* ---------------------------------------------------------------------- *)
(* Bulk entry points                                                       *)
(* ---------------------------------------------------------------------- *)
\* executor.map(fn, image_list): one future per item, submitted in list
\* order, before any result is asked for.
executor_map(e, w) ==
  /\ scrubber = NoScrubber
  /\ cli = NotRun
  /\ bpc[e] = "idle"
  /\ bpc[Other(e)] \in {"idle", "returned"}
  /\ max_workers' = [max_workers EXCEPT ![e] = w]
  /\ fs' = [fs EXCEPT ![e] = [i \in 1..Len(image_list) |-> PendingFuture]]
  /\ results' = [results EXCEPT ![e] = <<>>]
  /\ bpc' = [bpc EXCEPT ![e] = "collecting"]
  /\ UNCHANGED <<image_list, cascadeOk, ret, overtaken, scrubber, cli>>

\* Scrubber.bulk_process: ThreadPoolExecutor() with its default pool size,
\* min(32, cpu_count + 4).
Scrubber_bulk_process == executor_map("thread", Min(32, CpuCount + 4))

\* utils.bulk_process: ProcessPoolExecutor(max_workers), cpu_count when the
\* argument is None.
bulk_process == \E w \in (1..MaxWorkers) \cup {CpuCount} : executor_map("process", w)

\* Mutant of TaskFn: the result is written to a buffer the tasks share, so
\* a task may hand back what another task left there.
TaskFn_shared(e, data, s) ==
  LET r == IF e = "thread" THEN _process_single(data, s) ELSE _scrub_task(data, s)
  IN  IF \E i \in 1..Len(fs[e]) : fs[e][i].st = "FINISHED"
        THEN [r EXCEPT !.result =
                fs[e][CHOOSE i \in 1..Len(fs[e]) : fs[e][i].st = "FINISHED"].result]
        ELSE r

\* The function each engine maps over the list, from the point where the
\* Scrubber's call has ended.
TaskFn(e, data, s) ==
  IF e = "thread" THEN _process_single(data, s) ELSE _scrub_task(data, s)

Running(e) == {i \in 1..Len(fs[e]) : fs[e][i].st = "RUNNING"}

Finished(e) == {i \in 1..Len(fs[e]) : fs[e][i].st = "FINISHED"}

\* Mutant of CanStart: an item whose pipeline failed is queued once more.
CanStart_retry(e, i) ==
  /\ \/ fs[e][i].st = "PENDING"
     \/ /\ fs[e][i].st = "FINISHED"
        /\ fs[e][i].err # "none"
        /\ fs[e][i].starts < 2
  /\ \A j \in 1..(i - 1) : fs[e][j].st # "PENDING"
  /\ Cardinality(Running(e)) < max_workers[e]

\* A worker is free and item i is at the head of the work queue.
CanStart(e, i) ==
  /\ fs[e][i].st = "PENDING"
  /\ \A j \in 1..(i - 1) : fs[e][j].st # "PENDING"
  /\ Cardinality(Running(e)) < max_workers[e]

\* A worker takes item i off the work queue and calls the mapped function
\* on it.
TaskStart(e, i) ==
  /\ bpc[e] = "collecting"
  /\ CanStart(e, i)
  /\ fs' = [fs EXCEPT ![e][i] = [@ EXCEPT !.st = "RUNNING", !.starts = @ + 1]]
  /\ UNCHANGED <<image_list, cascadeOk, max_workers, results, bpc, ret,
                 overtaken, scrubber, cli>>

\* The mapped function runs Scrubber(data).process() on its own item to the
\* end and the future is resolved with what the function returns or raises.
\* The item, the Scrubber and everything the stages create are local to the
\* call; the cascade file is only read.
TaskRun(e, i) ==
  /\ fs[e][i].st = "RUNNING"
  /\ \E ms \in 0..MaxTime :
       \E s1 \in {pipeline(image_list[i], cascadeOk, ms)} :
         \E r \in {TaskFn(e, image_list[i], s1)} :
           fs' = [fs EXCEPT ![e][i] =
                    [@ EXCEPT !.st = "FINISHED", !.result = r.result,
                              !.exception = r.exception, !.err = s1.err,
                              !.logs = r.logs, !.trace = s1.trace]]
  /\ overtaken' = [overtaken EXCEPT ![e] =
                     @ \/ \E j \in 1..(i - 1) : fs[e][j].st # "FINISHED"]
  /\ UNCHANGED <<image_list, cascadeOk, max_workers, results, bpc, ret,
                 scrubber, cli>>

\* Mutant of next_index: the list of futures is consumed from its end.
next_index_reversed(e) == Len(fs[e]) - Len(results[e])

\* The iterator executor.map returns yields the futures' results in
\* submission order: the next one is the first not yet taken.
next_index(e) == Len(results[e]) + 1

\* Mutant of result_ready: result() does not wait for the future.
result_ready_nowait(f) == TRUE

\* Future.result() returns (or raises) once the future is finished.
result_ready(f) == f.st = "FINISHED"

\* list(executor.map(...)): take the next result in submission order; a
\* future that holds an exception re-raises it and the pending futures are
\* cancelled.
Collect(e) ==
  /\ bpc[e] = "collecting"
  /\ Len(results[e]) < Len(fs[e])
  /\ LET f == fs[e][next_index(e)] IN
     /\ result_ready(f)
     /\ IF f.exception = "none"
          THEN /\ results' = [results EXCEPT ![e] = Append(@, f.result)]
               /\ UNCHANGED <<bpc, fs>>
          ELSE /\ bpc' = [bpc EXCEPT ![e] = "raising"]
               /\ fs' = [fs EXCEPT ![e] =
                           [i \in 1..Len(fs[e]) |->
                              IF fs[e][i].st = "PENDING"
                                THEN [fs[e][i] EXCEPT !.st = "CANCELLED"]
                                ELSE fs[e][i]]]
               /\ UNCHANGED results
  /\ UNCHANGED <<image_list, cascadeOk, max_workers, ret, overtaken, scrubber, cli>>

\* The executor's __exit__ (shutdown(wait=True)) has joined every worker.
shutdown_done(e) == Running(e) = {}

\* The with block is left and the call returns the list, or lets the
\* exception of a future through.
Return(e) ==
  /\ \/ bpc[e] = "collecting" /\ Len(results[e]) = Len(fs[e])
     \/ bpc[e] = "raising"
  /\ shutdown_done(e)
  /\ ret' = [ret EXCEPT ![e] =
               IF bpc[e] = "raising"
                 THEN [status |-> "raised", value |-> <<>>,
                       err |-> fs[e][next_index(e)].exception]
                 ELSE [status |-> "returned", value |-> results[e],
                       err |-> "none"]]
  /\ bpc' = [bpc EXCEPT ![e] = "returned"]
  /\ UNCHANGED <<image_list, cascadeOk, max_workers, fs, results, overtaken,
                 scrubber, cli>>

(* ---------------------------------------------------------------------- *)
(* Single-image pipeline                                                   *)
(* ---------------------------------------------------------------------- *)
SingleUpdate(s1) ==
  /\ scrubber' = s1
  /\ UNCHANGED <<image_list, cascadeOk, max_workers, fs, results, bpc, ret,
                 overtaken, cli>>

\* Scrubber(image_list[k]): __init__ up to the call of _validate.
NewScrubber(k) ==
  /\ scrubber = NoScrubber
  /\ cli = NotRun
  /\ \A e \in Engines : bpc[e] = "idle"
  /\ SingleUpdate(Scrubber_init(image_list[k]))

Validate ==
  /\ scrubber.stage = "Validating"
  /\ SingleUpdate(Scrubber_validate(scrubber))

\* scrubber.process() on a constructed Scrubber, whatever its earlier calls
\* ended in.
Process ==
  /\ scrubber.stage \in {"Constructed", "Done", "Failed"}
  /\ scrubber.validated # NoBuf
  /\ scrubber.calls < MaxCalls
  /\ SingleUpdate(process_enter(scrubber))

Strip ==
  /\ scrubber.stage = "Stripping"
  /\ SingleUpdate(process_strip(scrubber))

Blur ==
  /\ scrubber.stage = "Blurring"
  /\ \E ms \in 0..MaxTime : SingleUpdate(process_blur(scrubber, cascadeOk, ms))

(* ---------------------------------------------------------------------- *)
(* cli.py                                                                  *)
(* ---------------------------------------------------------------------- *)
\* Scrubber.get_summary: the face count of the stored bytes; a failing
\* detection is logged and reported inside the summary.
get_summary(s, cascade) ==
  LET d == detect_faces(s.image_bytes, cascade) IN
  IF d.ok THEN [faces_detected |-> Len(d.val.faces), error |-> "none"]
          ELSE [faces_detected |-> 0, error |-> d.err]

\* A value is a bytes object (a buffer), not a (bytes, stats) pair or any
\* other object.
IsBytes(v) == "kind" \in DOMAIN v /\ v.kind = "bytes"

\* A file that open(path, "wb") created and nothing was written to.
EmptyFile == [kind |-> "empty"]

\* with open(output_path, "wb") as f: f.write(v).  The file is created
\* empty; write accepts a bytes-like object and raises TypeError otherwise.
file_write(v) ==
  IF IsBytes(v) THEN [ok |-> TRUE, content |-> v, err |-> "none"]
                ELSE [ok |-> FALSE, content |-> EmptyFile, err |-> "TypeError"]

\* os.path.basename(os.path.splitext(args.input)[0]) of the input path.
InputBase == "photo"

\* The output path: args.output if given, else scrubbed_<basename>.png.
output_path(output) ==
  IF output # "none" THEN output ELSE "scrubbed_" \o InputBase \o ".png"

\* main() on an input path and its options.  exists: the input file exists;
\* data: its content; output: the -o path ("none" if not given).  The run
\* ends with status "ok" or with the error it raised; file is the content
\* of the output file (NoBuf if the file was never opened).
main(data, exists, dry_run, output, cascade, ms) ==
  LET base == [status |-> "ok", err |-> "none", input |-> data,
               exists |-> exists, dry_run |-> dry_run, output |-> output,
               path |-> "none", file |-> NoBuf, faces |-> 0]
      s0 == Scrubber_validate(Scrubber_init(data))
      s == pipeline(data, cascade, ms)
      w == file_write(s.out)
  IN
  IF ~exists
    THEN [base EXCEPT !.status = "error", !.err = "FileNotFoundError"]
  ELSE IF s0.stage = "Failed"
    THEN [base EXCEPT !.status = "error", !.err = s0.err]
  ELSE IF dry_run
    THEN [base EXCEPT !.faces = get_summary(s0, cascade).faces_detected]
  ELSE IF s.stage = "Failed"
    THEN [base EXCEPT !.status = "error", !.err = s.err]
  ELSE [base EXCEPT !.status = IF w.ok THEN "ok" ELSE "error",
                    !.err = w.err,
                    !.path = output_path(output),
                    !.file = w.content]

\* One run of the program on a file that holds image_list[k]; a file's
\* content is always a bytes object.
cli_main(k) ==
  /\ cli = NotRun
  /\ scrubber = NoScrubber
  /\ \A e \in Engines : bpc[e] = "idle"
  /\ image_list[k].kind = "bytes"
  /\ \E exists \in BOOLEAN, dry_run \in BOOLEAN, output \in {"none", "out.jpg"},
        ms \in 0..MaxTime :
       cli' = main(image_list[k], exists, dry_run, output, cascadeOk, ms)
  /\ UNCHANGED <<image_list, cascadeOk, max_workers, fs, results, bpc, ret,
                 overtaken, scrubber>>

(* ---------------------------------------------------------------------- *)
(* Specification                                                           *)
(* ---------------------------------------------------------------------- *)
Next ==
  \/ Scrubber_bulk_process
  \/ bulk_process
  \/ \E e \in Engines : \E i \in 1..Len(fs[e]) : TaskStart(e, i)
  \/ \E e \in Engines : \E i \in 1..Len(fs[e]) : TaskRun(e, i)
  \/ \E e \in Engines : Collect(e)
  \/ \E e \in Engines : Return(e)
  \/ \E k \in 1..Len(image_list) : NewScrubber(k)
  \/ Validate
  \/ Process
  \/ Strip
  \/ Blur
  \/ \E k \in 1..Len(image_list) : cli_main(k)

Spec == Init /\ [][Next]_vars

\* The pool's workers and the thread that called the bulk entry point are
\* scheduled by the operating system: a step of theirs that stays possible
\* is eventually taken.
BulkStep ==
  \/ \E e \in Engines : \E i \in 1..Len(fs[e]) :
        TaskStart(e, i) \/ TaskRun(e, i)
  \/ \E e \in Engines : Collect(e) \/ Return(e)

\* Batches for the termination check: one item for each way a pipeline can
\* end (not bytes, rejected by validation, strip fails, blurred or, without
\* the cascade file, failed in detection).
FairInputs ==
  {NotBytes, Corrupt, Truncated} \cup
  {b \in Inputs : b.saveOk /\ Len(b.faces) = 1 /\ b.encOk}

FairInit == Init /\ image_list \in BoundedSeq(FairInputs, MaxLen)

FairSpec == FairInit /\ [][Next]_vars /\ WF_vars(BulkStep)

\* One image per run, drawn from ImageInputs.
ImageInit ==
  /\ image_list \in {<<b>> : b \in ImageInputs}
  /\ cascadeOk \in BOOLEAN
  /\ max_workers = [e \in Engines |-> 0]
  /\ fs = [e \in Engines |-> <<>>]
  /\ results = [e \in Engines |-> <<>>]
  /\ bpc = [e \in Engines |-> "idle"]
  /\ ret = [e \in Engines |-> NotCalled]
  /\ overtaken = [e \in Engines |-> FALSE]
  /\ scrubber = NoScrubber
  /\ cli = NotRun

ImageSpec == ImageInit /\ [][Next]_vars

(* ---------------------------------------------------------------------- *)
(* Properties                                                              *)
(* ---------------------------------------------------------------------- *)
\* What a bulk call owes for one item: the scrubbed bytes, or the item
\* itself when its pipeline fails.
ExpectedOutput(data) ==
  LET s == pipeline(data, cascadeOk, 0) IN
  IF s.stage = "Done" THEN s.out.bytes ELSE data

Returned(e) == ret[e].status = "returned"

\* C1: whatever the worker count and the completion order, the list a bulk
\* entry point returns has the length of the input list and holds at index i
\* the result computed from the input at index i.
C1_OrderPreserved ==
  \A e \in Engines :
    Returned(e) =>
      /\ Len(ret[e].value) = Len(image_list)
      /\ \A i \in 1..Len(image_list) :
           ret[e].value[i] = ExpectedOutput(image_list[i])

\* Both engines have returned a two-item batch whose second item completed
\* before the first, with different results at the two indexes.
C1_Witness ==
  /\ Len(image_list) = 2
  /\ \A e \in Engines :
       /\ Returned(e)
       /\ overtaken[e]
       /\ ret[e].value[1] # ret[e].value[2]

\* C2: when the pipeline of item j fails (at the type check, the validation,
\* the strip or the detect/blur stage) the output at j is the input at j,
\* and every other index holds what it owes to its own input.
C2_FailureIsolated ==
  \A e \in Engines :
    Returned(e) =>
      \A j \in 1..Len(image_list) :
        fs[e][j].err # "none" =>
          /\ ret[e].value[j] = image_list[j]
          /\ \A i \in 1..Len(image_list) \ {j} :
               ret[e].value[i] = ExpectedOutput(image_list[i])

\* An engine has returned a batch whose first item failed in the detect/blur
\* stage and whose second item was scrubbed into different bytes.
C2_Witness ==
  \E e \in Engines :
    /\ Returned(e)
    /\ Len(image_list) = 2
    /\ fs[e][1].err = "ProcessingError"
    /\ fs[e][1].trace = <<"Validating", "Stripping", "Blurring">>
    /\ fs[e][2].err = "none"
    /\ ret[e].value[2] # image_list[2]
    /\ ret[e].value[2].blurred

\* C3: a bulk call that has been made eventually returns its list, and it
\* never ends by raising an item's error.
C3_BulkTerminates ==
  \A e \in Engines :
    /\ [](ret[e].status # "raised")
    /\ (bpc[e] = "collecting") ~> Returned(e)

\* Both engines have returned a batch that mixes a failing and a succeeding
\* item.
C3_Witness ==
  /\ \A e \in Engines : Returned(e)
  /\ \E i, j \in 1..Len(image_list) :
       \A e \in Engines : fs[e][i].err # "none" /\ fs[e][j].err = "none"

\* The stages of Scrubber(b).process() as the libraries decide them.
StripOk(b) == strip_metadata(b).ok

BlurOk(b) == StripOk(b) /\ blur_faces(strip_metadata(b).val, cascadeOk).ok

Ended == scrubber.stage \in {"Done", "Failed"}

\* C4: in the single-image pipeline a failing stage ends the call with an
\* error and without a (bytes, stats) pair; a pair is returned only when the
\* validation, the strip and the detect/blur stage all succeeded.
C4_SingleFailureSurfaces ==
  scrubber # NoScrubber =>
    /\ scrubber.stage = "Failed" =>
         scrubber.err # "none" /\ scrubber.out = NoPair
    /\ scrubber.out # NoPair =>
         /\ scrubber.stage = "Done"
         /\ scrubber.image_bytes.verifyOk
         /\ BlurOk(scrubber.image_bytes)
    /\ (Ended /\ scrubber.image_bytes # NoBuf
          /\ ~(scrubber.image_bytes.verifyOk /\ BlurOk(scrubber.image_bytes))) =>
         scrubber.stage = "Failed"

\* A process() call whose strip succeeded has failed in the detect/blur
\* stage.
C4_Witness ==
  /\ scrubber # NoScrubber
  /\ scrubber.stage = "Failed"
  /\ scrubber.calls = 1
  /\ scrubber.cleaned # NoBuf
  /\ scrubber.err = "ProcessingError"

\* C5: the stages run in the order Validating, Stripping, Blurring, Done:
\* the strip runs on the buffer whose validation succeeded, the blur runs on
\* the output of a strip that succeeded, and no stage follows a failed one;
\* this holds for each process() call on one Scrubber.
C5_StageOrder ==
  scrubber # NoScrubber =>
    /\ scrubber.stage \in {"Stripping", "Blurring", "Done"} =>
         /\ scrubber.validated # NoBuf
         /\ scrubber.validated = scrubber.image_bytes
         /\ scrubber.image_bytes.verifyOk
    /\ scrubber.stage = "Stripping" => scrubber.arg = scrubber.image_bytes
    /\ scrubber.stage \in {"Blurring", "Done"} =>
         /\ StripOk(scrubber.image_bytes)
         /\ scrubber.cleaned = strip_metadata(scrubber.image_bytes).val
    /\ scrubber.stage = "Blurring" => scrubber.arg = scrubber.cleaned
    /\ scrubber.stage = "Done" => BlurOk(scrubber.image_bytes)
    /\ \A k \in 1..Len(scrubber.trace) :
         /\ (scrubber.trace[k] = "Validating") = (k = 1)
         /\ scrubber.trace[k] = "Blurring" => scrubber.trace[k - 1] = "Stripping"
         /\ scrubber.trace[k] = "Done" => scrubber.trace[k - 1] = "Blurring"
    /\ Cardinality({k \in 1..Len(scrubber.trace) : scrubber.trace[k] = "Stripping"})
         = scrubber.calls

\* The second process() call on one Scrubber has reached the blur stage.
C5_Witness ==
  /\ scrubber # NoScrubber
  /\ scrubber.calls = 2
  /\ scrubber.stage = "Blurring"

\* C6: when a bulk entry point has returned, every item it dispatched is
\* finished; none is pending or running.
C6_Barrier ==
  \A e \in Engines :
    ret[e].status # "not_called" =>
      /\ Len(fs[e]) = Len(image_list)
      /\ \A i \in 1..Len(fs[e]) : fs[e][i].st = "FINISHED"

\* An engine with a single worker has returned a batch of two items.
C6_Witness ==
  \E e \in Engines :
    /\ Returned(e)
    /\ max_workers[e] = 1
    /\ Len(fs[e]) = 2

\* C7: on the same batch the thread engine and the process engine end the
\* same way, with the same list.
C7_EnginesAgree ==
  (\A e \in Engines : ret[e].status # "not_called") =>
    /\ ret["thread"].status = ret["process"].status
    /\ ret["thread"].value = ret["process"].value

\* Both engines have returned a batch with a failed and a blurred item.
C7_Witness ==
  /\ \A e \in Engines : Returned(e)
  /\ \E i, j \in 1..Len(image_list) :
       /\ fs["process"][i].err # "none"
       /\ fs["process"][i].trace = <<"Validating", "Stripping">>
       /\ ret["process"].value[j].blurred

\* C8: the result of an item is decided by that item alone: it is what the
\* pipeline makes of the item, at whatever index, in whichever engine, with
\* whatever neighbours, worker count and interleaving.
C8_ItemIsolation ==
  \A e \in Engines : \A i \in 1..Len(fs[e]) :
    fs[e][i].st = "FINISHED" =>
      /\ fs[e][i].result = ExpectedOutput(image_list[i])
      /\ \A e2 \in Engines : \A j \in 1..Len(fs[e2]) :
           (fs[e2][j].st = "FINISHED" /\ image_list[j] = image_list[i]) =>
             fs[e2][j].result = fs[e][i].result

\* An item has finished while its neighbour, a different item, was running,
\* and the neighbour finished after it.
C8_Witness ==
  \E e \in Engines :
    /\ Len(fs[e]) = 2
    /\ overtaken[e]
    /\ image_list[1] # image_list[2]
    /\ fs[e][1].st = "FINISHED"
    /\ fs[e][2].st = "FINISHED"
    /\ fs[e][2].result # image_list[2]

\* Detection on the strip output finds no grid or no region.
NothingToBlur(b) ==
  LET d == detect_faces(b, cascadeOk) IN
  d.ok /\ (d.val.img = "null" \/ Len(d.val.faces) = 0)

\* C9: when detection yields no grid or no region, blur_faces hands back
\* the buffer it was given, so process() returns the bytes of the strip
\* stage with faces_detected = 0 and metadata_removed = TRUE.
C9_ZeroFacePassThrough ==
  (scrubber # NoScrubber /\ Ended /\ scrubber.cleaned # NoBuf
     /\ NothingToBlur(scrubber.cleaned)) =>
    /\ scrubber.stage = "Done"
    /\ scrubber.out.bytes = scrubber.cleaned
    /\ scrubber.out.bytes = strip_metadata(scrubber.image_bytes).val
    /\ scrubber.out.stats.faces_detected = 0
    /\ scrubber.out.stats.metadata_removed

\* process() has returned for an image OpenCV decodes and finds no face in.
C9_Witness ==
  /\ scrubber # NoScrubber
  /\ scrubber.stage = "Done"
  /\ scrubber.cleaned.cvOk
  /\ scrubber.cleaned.faces = <<>>
  /\ scrubber.out.stats.faces_detected = 0

\* C10 as stated: every stats record has metadata_removed = TRUE and comes
\* from a run whose strip succeeded, and every run whose strip succeeded
\* reports metadata_removed = TRUE.
C10_Original ==
  scrubber # NoScrubber =>
    /\ scrubber.out # NoPair =>
         scrubber.out.stats.metadata_removed /\ StripOk(scrubber.image_bytes)
    /\ (Ended /\ scrubber.cleaned # NoBuf) =>
         scrubber.out # NoPair /\ scrubber.out.stats.metadata_removed

\* C10 amended: every stats record process() returns has metadata_removed =
\* TRUE and comes from a run whose strip succeeded; a run whose strip
\* succeeded reports metadata_removed = TRUE if its detect/blur stage
\* succeeded too, and returns no stats record otherwise.
C10_MetadataRemoved ==
  scrubber # NoScrubber =>
    /\ scrubber.out # NoPair =>
         /\ scrubber.out.stats.metadata_removed
         /\ StripOk(scrubber.image_bytes)
         /\ scrubber.cleaned = strip_metadata(scrubber.image_bytes).val
    /\ (Ended /\ scrubber.cleaned # NoBuf) =>
         IF blur_faces(scrubber.cleaned, cascadeOk).ok
           THEN scrubber.out # NoPair /\ scrubber.out.stats.metadata_removed
           ELSE scrubber.out = NoPair

\* process() has returned stats for an image that carried metadata.
C10_Witness ==
  /\ scrubber # NoScrubber
  /\ scrubber.stage = "Done"
  /\ scrubber.image_bytes.meta
  /\ ~scrubber.out.bytes.meta
  /\ scrubber.out.stats.metadata_removed

\* The counts a returned pair reports, without the measured time.
Counts(pair) ==
  [faces_detected |-> pair.stats.faces_detected,
   metadata_removed |-> pair.stats.metadata_removed]

\* C11: process() leaves the stored image_bytes as the constructor stored
\* them, and a second process() call on the same bytes, on the same Scrubber
\* or on a fresh one, ends as the first did: both raise or both return, and
\* returned stats agree on faces_detected and metadata_removed whatever the
\* measured times are.
C11_Repeatable ==
  (scrubber # NoScrubber /\ scrubber.validated # NoBuf) =>
    /\ scrubber.image_bytes = scrubber.validated
    /\ (scrubber.calls >= 2) =>
         scrubber.prev.image_bytes = scrubber.image_bytes
    /\ (scrubber.calls >= 2 /\ Ended) =>
         /\ (scrubber.prev.out = NoPair) = (scrubber.out = NoPair)
         /\ scrubber.prev.err = scrubber.err
         /\ scrubber.out # NoPair =>
              Counts(scrubber.prev.out) = Counts(scrubber.out)
    /\ (scrubber.stage = "Done") =>
         \A ms \in 0..MaxTime :
           \E fresh \in {pipeline(scrubber.image_bytes, cascadeOk, ms)} :
             /\ fresh.stage = "Done"
             /\ Counts(fresh.out) = Counts(scrubber.out)

\* Two process() calls on one Scrubber have returned one face each, with
\* different measured times.
C11_Witness ==
  /\ scrubber # NoScrubber
  /\ scrubber.stage = "Done"
  /\ scrubber.calls = 2
  /\ scrubber.prev.out # NoPair
  /\ scrubber.out.stats.faces_detected = 1
  /\ scrubber.prev.out.stats.processing_time_ms
       # scrubber.out.stats.processing_time_ms

\* An image decoder accepts the buffer.
Decodable(b) == b.kind = "bytes" /\ b.verifyOk

C13_CliWritesScrubbed ==
  (cli # NotRun /\ cli.exists /\ ~cli.dry_run) =>
    \A s \in {pipeline(cli.input, cascadeOk, 0)} :
      s.stage = "Done" =>
        /\ cli.status = "ok"
        /\ cli.file = s.out.bytes
        /\ cli.path = IF cli.output = "none" THEN "scrubbed_photo.png"
                                             ELSE cli.output

\* C14: the stats record of every returned process() call carries the keys
\* original_hash and new_hash that the API test reads from it.
C14_StatsHaveHashes ==
  (scrubber # NoScrubber /\ scrubber.stage = "Done") =>
    {"original_hash", "new_hash"} \subseteq DOMAIN scrubber.out.stats

\* C15: the kernel size floor(max(w, h) / 2) | 1 is odd and at least 1 for
\* every region with w > 0 and h > 0, so the blur accepts it; for w = 41,
\* h = 60 it is 31.  Checked on the regions of every buffer handed to the
\* blur stage and on every smaller positive width and height.
C15_KernelOdd ==
  /\ (scrubber # NoScrubber /\ scrubber.stage = "Blurring") =>
       \A i \in 1..Len(scrubber.arg.faces) :
         \E k \in {ksize(scrubber.arg.faces[i][3], scrubber.arg.faces[i][4])},
            m \in {Max(scrubber.arg.faces[i][3], scrubber.arg.faces[i][4]) \div 2} :
           /\ k >= 1
           /\ k % 2 = 1
           /\ k \in {m, m + 1}
           /\ GaussianBlurOk(k)
           /\ (scrubber.arg.faces[i][3] = 41 /\ scrubber.arg.faces[i][4] = 60)
                => k = 31
  /\ \A w, h \in 1..(MinSize + MaxDim) :
       ksize(w, h) >= 1 /\ ksize(w, h) % 2 = 1

\* The region of width 41 and height 60 has been blurred and the call has
\* returned one face.
C15_Witness ==
  /\ scrubber # NoScrubber
  /\ scrubber.stage = "Done"
  /\ scrubber.image_bytes.faces = << <<0, 0, 41, 60>> >>
  /\ scrubber.out.bytes.blurred
  /\ scrubber.out.stats.faces_detected = 1
  /\ ksize(41, 60) = 31

\* The detect/blur stage of the current call has ended: blur_faces was
\* called with cleaned_bytes and has returned or raised.
BlurEnded == scrubber # NoScrubber /\ Ended /\ scrubber.cleaned # NoBuf

\* C16 as stated: blur_faces ends in an error only when detect_faces raised;
\* no step after a successful detection makes blur_faces raise.
C16_Original ==
  (BlurEnded /\ scrubber.stage = "Failed") =>
    ~detect_faces(scrubber.cleaned, cascadeOk).ok

\* C16, amended: blur_faces ends in an error exactly when detect_faces raised
\* (the grid was decoded and the cascade did not load) or when, after a
\* detection that found at least one region, the blurring or the JPEG
\* encoding raised; the error is a ProcessingError.  Finding no region, or
\* decoding no grid, never ends in an error.
C16_BlurErrors ==
  BlurEnded =>
    /\ (scrubber.stage = "Failed") =
         (/\ scrubber.cleaned.cvOk
          /\ \/ ~cascadeOk
             \/ /\ scrubber.cleaned.faces # <<>>
                /\ ~scrubber.cleaned.encOk)
    /\ (scrubber.stage = "Failed") => scrubber.err = "ProcessingError"
    /\ (cascadeOk /\ scrubber.cleaned.faces = <<>>) => scrubber.stage = "Done"

\* A detection that succeeded and found a region is followed by a JPEG
\* encoding that fails, and the call has raised.
C16_Witness ==
  /\ BlurEnded
  /\ scrubber.stage = "Failed"
  /\ cascadeOk
  /\ detect_faces(scrubber.cleaned, cascadeOk).ok
  /\ Len(scrubber.cleaned.faces) = 1
  /\ ~scrubber.cleaned.encOk

\* C17: for a buffer OpenCV cannot decode, detect_faces returns a null image
\* and an empty region list as a normal result, with or without the cascade
\* file, and the process() call around it returns the strip output as its
\* bytes with faces_detected = 0.
C17_UndecodableIsNotAnError ==
  (BlurEnded /\ ~scrubber.cleaned.cvOk) =>
    /\ \E d \in {detect_faces(scrubber.cleaned, cascadeOk)} :
         d.ok /\ d.val.img = "null" /\ d.val.faces = <<>>
    /\ scrubber.stage = "Done"
    /\ scrubber.err = "none"
    /\ scrubber.out.bytes = scrubber.cleaned
    /\ scrubber.out.stats.faces_detected = 0

\* process() has returned on an image that PIL re-saved and OpenCV cannot
\* decode, on an installation whose cascade file does not load.
C17_Witness ==
  /\ BlurEnded
  /\ scrubber.stage = "Done"
  /\ ~scrubber.cleaned.cvOk
  /\ ~cascadeOk
  /\ scrubber.out.bytes.enc = "pil"

\* The stages of one pipeline run, in the order the code enters them.
Stages == <<"Validating", "Stripping", "Blurring", "Done">>

\* C18: within one bulk call the pipeline is started exactly once for every
\* index that has been taken off the queue and never for one that has not;
\* a finished item has entered each stage at most once, in pipeline order,
\* and a failed item is resolved to its input by that same single run,
\* without a stage after the failing one.
C18_NoRetry ==
  \A e \in Engines :
    /\ \A i \in 1..Len(fs[e]) :
         /\ fs[e][i].starts = IF fs[e][i].st = "PENDING" THEN 0 ELSE 1
         /\ fs[e][i].st = "FINISHED" =>
              /\ Len(fs[e][i].trace) <= Len(Stages)
              /\ fs[e][i].trace = SubSeq(Stages, 1, Len(fs[e][i].trace))
              /\ fs[e][i].err # "none" =>
                   /\ fs[e][i].result = image_list[i]
                   /\ fs[e][i].exception = "none"
                   /\ \A n \in 1..Len(fs[e][i].trace) :
                        fs[e][i].trace[n] # "Done"
    /\ Returned(e) =>
         \A i \in 1..Len(image_list) : fs[e][i].starts = 1

\* A bulk call has returned a batch whose first item failed in the strip
\* stage and was resolved to its input after a single start.
C18_Witness ==
  \E e \in Engines :
    /\ Returned(e)
    /\ Len(image_list) = 2
    /\ fs[e][1].err = "ProcessingError"
    /\ fs[e][1].trace = <<"Validating", "Stripping">>
    /\ fs[e][1].starts = 1
    /\ ret[e].value[1] = image_list[1]

\* C19: at least one log record has been emitted by the time a single-image
\* call has surfaced its failure and by the time a bulk item has been
\* resolved to its fallback, on the thread path and on the process path,
\* whatever the cause (not bytes, failed validation, strip, detect/blur).
C19_EveryFailureLogged ==
  /\ (scrubber # NoScrubber /\ scrubber.stage = "Failed") => scrubber.logs >= 1
  /\ \A e \in Engines :
       \A i \in 1..Len(fs[e]) :
         (fs[e][i].st = "FINISHED" /\ fs[e][i].err # "none") =>
           fs[e][i].logs >= 1

\* C20: the bytes process() returns are JPEG whenever at least one face was
\* blurred, whatever the input's format; when no face was blurred they are
\* in the format the strip stage wrote, which is the input's detected format,
\* or JPEG when PIL reports none.
C20_OutputFormat ==
  (scrubber # NoScrubber /\ scrubber.stage = "Done") =>
    /\ (scrubber.out.stats.faces_detected >= 1) = scrubber.out.bytes.blurred
    /\ IF scrubber.out.stats.faces_detected >= 1
         THEN scrubber.out.bytes.fmt = "JPEG"
         ELSE /\ scrubber.out.bytes.fmt = scrubber.cleaned.fmt
              /\ scrubber.out.bytes.fmt =
                   IF scrubber.image_bytes.fmt = "NONE"
                     THEN "JPEG" ELSE scrubber.image_bytes.fmt

\* A PNG image with one face has come back blurred, as JPEG.
C20_Witness ==
  /\ scrubber # NoScrubber
  /\ scrubber.stage = "Done"
  /\ scrubber.image_bytes.fmt = "PNG"
  /\ scrubber.cleaned.fmt = "PNG"
  /\ scrubber.out.stats.faces_detected = 1
  /\ scrubber.out.bytes.fmt = "JPEG"

====
